---------------------------- MODULE Spec2Model ----------------------------
(***************************************************************************)
(* A model of internal_services/utility.py: the ServiceClient transport    *)
(* wrapper, the token payload normalisation helper and the nine service    *)
(* facades built on them.                                                  *)
(*                                                                         *)
(* Python values are records tagged with their type.  A Python str is a    *)
(* sequence of atoms, each atom one character or one run of characters     *)
(* that holds no "/"; the atom "/" is the path separator itself.  A dict   *)
(* is a function from its keys to values.                                  *)
(***************************************************************************)
EXTENDS Integers, Sequences, FiniteSets, TLC

VARIABLES env, facade, clientState, ctor, call, released, closes, pure

vars == <<env, facade, clientState, ctor, call, released, closes, pure>>

-----------------------------------------------------------------------------
(* Bounds of the model. *)

\* Longest string (in atoms) drawn as an input of the string functions.
MaxLen == 3
\* Most close() calls in one behaviour.
MaxCloses == 3

-----------------------------------------------------------------------------
(* Python values. *)

Slash == "/"

None == [type |-> "NoneType"]
PyStr(s) == [type |-> "str", s |-> s]
PyInt(n) == [type |-> "int", n |-> n]
PyDict(m) == [type |-> "dict", m |-> m]
\* A pre-built httpx.Auth instance the caller holds.
OpaqueAuth(id) == [type |-> "Auth", id |-> id]
\* httpx.BasicAuth(username, password).
BasicAuth(u, p) == [type |-> "BasicAuth", username |-> u, password |-> p]
\* Any other object, known by its attributes.
PyObject(attrs) == [type |-> "object", attrs |-> attrs]

EmptyDict == [k \in {} |-> None]

\* Python truthiness, as `not x` and `x or y` use it.
Truthy(v) ==
    CASE v.type = "NoneType" -> FALSE
      [] v.type = "str" -> v.s # <<>>
      [] v.type = "int" -> v.n # 0
      [] v.type = "dict" -> DOMAIN v.m # {}
      [] OTHER -> TRUE

\* x or y
Or(x, y) == IF Truthy(x) THEN x ELSE y

\* d.get(k): the value under k, None when the key is absent.
Get(d, k) == IF k \in DOMAIN d.m THEN d.m[k] ELSE None

\* isinstance(v, httpx.Auth): BasicAuth is a subclass of Auth.
IsAuth(v) == v.type \in {"Auth", "BasicAuth"}

\* hasattr(v, name): only a plain object carries attributes here; a dict's
\* keys are not attributes.
HasAttr(v, name) == v.type = "object" /\ name \in DOMAIN v.attrs

\* The outcome of a call that may raise.
Return(v) == [raised |-> FALSE, val |-> v]
Raise(e) == [raised |-> TRUE, exc |-> e]

\* str(v) as an f-string interpolates it: a str is itself, an int its digits.
Format(v) ==
    CASE v.type = "str" -> v.s
      [] v.type = "int" -> <<ToString(v.n)>>
      [] OTHER -> <<v.type>>

\* s.startswith("/")
StartsWithSlash(s) == Len(s) > 0 /\ s[1] = Slash

\* s.rstrip("/")
RECURSIVE rstrip(_)
rstrip(s) ==
    IF Len(s) > 0 /\ s[Len(s)] = Slash
    THEN rstrip(SubSeq(s, 1, Len(s) - 1))
    ELSE s

-----------------------------------------------------------------------------
(* ServiceClient._normalise and _normalise_token_payload. *)

\* A bug that prefixes the separator without looking at the endpoint.
AlwaysPrefix(endpoint) == <<Slash>> \o endpoint

_normalise(endpoint) ==
    IF StartsWithSlash(endpoint) THEN endpoint ELSE <<Slash>> \o endpoint

\* A bug that returns every mapping as it came, extra keys included.
TokenPayloadKeepsKeys(token) ==
    IF token.type = "str" THEN Return(PyDict([k \in {"token"} |-> token]))
    ELSE IF token.type = "dict" THEN Return(token)
    ELSE Raise("TypeError")

_normalise_token_payload(token) ==
    IF token.type = "str" THEN Return(PyDict([k \in {"token"} |-> token]))
    ELSE IF token.type = "dict" THEN
        IF "token" \in DOMAIN token.m
        THEN Return(PyDict([k \in {"token"} |-> token.m["token"]]))
        ELSE Return(token)
    ELSE Raise("TypeError")

-----------------------------------------------------------------------------
(* Input domains. *)

Alphabet == {Slash, "health", "x"}
Strings == UNION {[1..n -> Alphabet] : n \in 0..MaxLen}

TokenKeys == {"token", "uid"}
TokenStrs == {PyStr(<<"tok123">>), PyStr(<<>>)}
TokenDicts == {PyDict(m) : m \in UNION {[D -> TokenStrs] : D \in SUBSET TokenKeys}}
NonTokens == {None, PyInt(7), OpaqueAuth("a1")}
TokenValues == TokenStrs \cup TokenDicts \cup NonTokens

-----------------------------------------------------------------------------
(* The facade classes: each reads one environment variable and has one     *)
(* hardcoded default base URL.                                             *)

FacadeClasses ==
    {"AdminManagementService", "AlertAndEventProcessingService",
     "DeviceCommandService", "DeviceOnboardingService",
     "DeviceTelemetryService", "HealthMonitoringService",
     "NotificationMicroserviceService", "ParkingSlotService",
     "UserAuthenticationService"}

EnvVar(cls) ==
    CASE cls = "AdminManagementService" -> "ADMIN_MANAGEMENT_SERVICE_URL"
      [] cls = "AlertAndEventProcessingService" -> "ALERT_EVENT_PROCESSING_SERVICE_URL"
      [] cls = "DeviceCommandService" -> "DEVICE_COMMAND_SERVICE_URL"
      [] cls = "DeviceOnboardingService" -> "DEVICE_ONBOARDING_SERVICE_URL"
      [] cls = "DeviceTelemetryService" -> "DEVICE_TELEMETRY_SERVICE_URL"
      [] cls = "HealthMonitoringService" -> "HEALTH_MONITORING_SERVICE_URL"
      [] cls = "NotificationMicroserviceService" -> "NOTIFICATION_SERVICE_URL"
      [] cls = "ParkingSlotService" -> "PARKING_SLOT_SERVICE_URL"
      [] cls = "UserAuthenticationService" -> "USER_AUTH_SERVICE_URL"

EnvVars == {EnvVar(cls) : cls \in FacadeClasses}

Http(host) == <<"http:", Slash, Slash, host>>

DefaultUrl(cls) ==
    CASE cls = "AdminManagementService" -> Http("admin-management-service:8000")
      [] cls = "AlertAndEventProcessingService" -> Http("alert-event-processing-service:8000")
      [] cls = "DeviceCommandService" -> Http("device-command-service:8000")
      [] cls = "DeviceOnboardingService" -> Http("device-onboarding-service:8000")
      [] cls = "DeviceTelemetryService" -> Http("device-telemetry-service:8000")
      [] cls = "HealthMonitoringService" -> Http("health-monitoring-service:8000")
      [] cls = "NotificationMicroserviceService" -> Http("notification-service:8000")
      [] cls = "ParkingSlotService" -> Http("parking-slot-service:8000")
      [] cls = "UserAuthenticationService" -> Http("user-auth-service:8000")

\* The default of the timeout parameter of every constructor.
DefaultTimeout == 30

\* The process environment: each variable unset, or set to a string.
Unset == [set |-> FALSE]
SetTo(s) == [set |-> TRUE, val |-> s]

\* A bug that falls back to the default whenever the variable is empty.
GetenvOrDefault(e, name, default) ==
    IF e[name].set /\ e[name].val # <<>> THEN PyStr(e[name].val) ELSE default

\* os.getenv(name, default): the default only when the variable is unset.
getenv(e, name, default) ==
    IF e[name].set THEN PyStr(e[name].val) ELSE default

-----------------------------------------------------------------------------
(* Construction. *)

\* ServiceClient.__init__: the object's fields, or ValueError.
ServiceClient_init(base_url, timeout) ==
    IF ~Truthy(base_url) THEN Raise("ValueError")
    ELSE Return([base_url |-> rstrip(base_url.s), timeout |-> timeout])

\* <Facade>.__init__, the same in all nine classes.
Facade_init(cls, base_url, timeout, e) ==
    LET service_url == Or(base_url, getenv(e, EnvVar(cls), PyStr(DefaultUrl(cls))))
    IN  ServiceClient_init(service_url, timeout)

NoFacade == [cls |-> "none"]
NoCtor == [cls |-> "none"]
NoCall == [phase |-> "none"]
NoPure == [pc |-> "idle"]

\* The state a construction attempt leaves: the object (a facade holds
\* exactly one ServiceClient, whose fields are kept in the facade record)
\* with its httpx.AsyncClient not yet opened, or no object.
Constructed(cls, base_url, timeout, r) ==
    /\ ctor' = [cls |-> cls, base_url |-> base_url, timeout |-> timeout,
                raised |-> r.raised, exc |-> IF r.raised THEN r.exc ELSE "none"]
    /\ facade' = IF r.raised THEN NoFacade
                 ELSE [cls |-> cls, base_url |-> r.val.base_url,
                       timeout |-> r.val.timeout]
    /\ clientState' = IF r.raised THEN "none" ELSE "UNOPENED"

\* ServiceClient(base_url, timeout)
NewServiceClient(base_url, timeout) ==
    /\ facade = NoFacade /\ ctor = NoCtor
    /\ Constructed("ServiceClient", base_url, timeout,
                   ServiceClient_init(base_url, timeout))
    /\ UNCHANGED <<env, call, released, closes, pure>>

\* <Facade>(base_url, timeout)
NewFacade(cls, base_url, timeout) ==
    /\ facade = NoFacade /\ ctor = NoCtor
    /\ Constructed(cls, base_url, timeout, Facade_init(cls, base_url, timeout, env))
    /\ UNCHANGED <<env, call, released, closes, pure>>

\* Most trailing slashes of a base URL drawn as an input.
MaxSlashes == 2
\* Most environment variables set at once.
MaxEnvSet == 1

RECURSIVE Slashes(_)
Slashes(n) == IF n = 0 THEN <<>> ELSE <<Slash>> \o Slashes(n - 1)

UrlStrings ==
    {p \o Slashes(n) : p \in {<<>>, Http("x")}, n \in 0..MaxSlashes}
UrlArgs == {None} \cup {PyStr(s) : s \in UrlStrings}
Timeouts == {DefaultTimeout, 5}

NoEnvironment == [v \in EnvVars |-> Unset]

\* The environments with at most n variables set.
RECURSIVE EnvironmentsWith(_)
EnvironmentsWith(n) ==
    IF n = 0 THEN {NoEnvironment}
    ELSE LET fewer == EnvironmentsWith(n - 1)
         IN  fewer \cup {[e EXCEPT ![v] = SetTo(s)] :
                            e \in fewer, v \in EnvVars, s \in UrlStrings}

Environments == EnvironmentsWith(MaxEnvSet)

InitCtor ==
    /\ env \in Environments
    /\ facade = NoFacade /\ ctor = NoCtor /\ clientState = "none"
    /\ call = NoCall /\ released = 0 /\ closes = <<>>
    /\ pure = NoPure

NextCtor ==
    \/ \E b \in UrlArgs, t \in Timeouts : NewServiceClient(b, t)
    \/ \E cls \in FacadeClasses, b \in UrlArgs, t \in Timeouts : NewFacade(cls, b, t)

SpecCtor == InitCtor /\ [][NextCtor]_vars

-----------------------------------------------------------------------------
(* The two pure functions applied to drawn inputs. *)

PureInputs ==
    {[kind |-> "endpoint", e |-> s] : s \in Strings}
        \cup {[kind |-> "token", v |-> t] : t \in TokenValues}

\* path = self._normalise(endpoint)
Normalise ==
    /\ pure.pc = "start" /\ pure.arg.kind = "endpoint"
    /\ pure' = [pure EXCEPT !.pc = "normalised", !.ret = <<_normalise(pure.arg.e)>>]
    /\ UNCHANGED <<env, facade, clientState, ctor, call, released, closes>>

\* The result normalised once more.
NormaliseAgain ==
    /\ pure.pc = "normalised"
    /\ pure' = [pure EXCEPT !.pc = "renormalised",
                            !.ret = Append(pure.ret, _normalise(pure.ret[1]))]
    /\ UNCHANGED <<env, facade, clientState, ctor, call, released, closes>>

\* payload = _normalise_token_payload(token)
NormaliseToken ==
    /\ pure.pc = "start" /\ pure.arg.kind = "token"
    /\ pure' = [pure EXCEPT !.pc = "payload",
                            !.ret = <<_normalise_token_payload(pure.arg.v)>>]
    /\ UNCHANGED <<env, facade, clientState, ctor, call, released, closes>>

InitPure ==
    /\ pure \in {[pc |-> "start", arg |-> a, ret |-> <<>>] : a \in PureInputs}
    /\ env = NoEnvironment
    /\ facade = NoFacade /\ ctor = NoCtor /\ clientState = "none"
    /\ call = NoCall /\ released = 0 /\ closes = <<>>

NextPure == Normalise \/ NormaliseAgain \/ NormaliseToken

SpecPure == InitPure /\ [][NextPure]_vars

-----------------------------------------------------------------------------
(* ServiceClient.get/post/put/delete: the request each hands to its        *)
(* httpx.AsyncClient, whose base URL is the client's.                      *)

\* A keyword argument that was not passed.
Absent == [type |-> "absent"]
NoKwargs == [json |-> Absent, params |-> Absent, auth |-> Absent]
Json(v) == [NoKwargs EXCEPT !.json = v]

\* {k1: v1, k2: v2}
Dict2(k1, v1, k2, v2) == PyDict([k \in {k1, k2} |-> IF k = k1 THEN v1 ELSE v2])
\* {k1: v1}
Dict1(k1, v1) == PyDict([k \in {k1} |-> v1])

Request(self, verb, endpoint, kwargs) ==
    LET path == _normalise(endpoint)
    IN  [verb |-> verb, endpoint |-> endpoint, path |-> path,
         url |-> self.base_url \o path,
         json |-> kwargs.json, params |-> kwargs.params, auth |-> kwargs.auth]

get(self, endpoint, kwargs) == Request(self, "GET", endpoint, kwargs)
post(self, endpoint, kwargs) == Request(self, "POST", endpoint, kwargs)
put(self, endpoint, kwargs) == Request(self, "PUT", endpoint, kwargs)
delete(self, endpoint, kwargs) == Request(self, "DELETE", endpoint, kwargs)

-----------------------------------------------------------------------------
(* The facade methods, each up to its one await: the request it hands to   *)
(* its ServiceClient, or the exception it raises before that.              *)

\* A method that posts the normalised token as the JSON body.
PostToken(self, endpoint, token) ==
    LET payload == _normalise_token_payload(token)
    IN  IF payload.raised THEN payload
        ELSE Return(post(self, endpoint, Json(payload.val)))

\* A method that posts the normalised token with query parameters.
PostTokenParams(self, endpoint, token, params) ==
    LET payload == _normalise_token_payload(token)
    IN  IF payload.raised THEN payload
        ELSE Return(post(self, endpoint,
                         [NoKwargs EXCEPT !.json = payload.val, !.params = params]))

health_check(self) == Return(get(self, <<Slash, "health">>, NoKwargs))
root(self) == Return(get(self, <<Slash>>, NoKwargs))

AdminManagementService_register_admin(self, admin_data) ==
    Return(post(self, <<Slash, "register_admin">>, Json(admin_data)))
AdminManagementService_get_all_non_staff(self, token) ==
    PostToken(self, <<Slash, "get_all_non_staff">>, token)
AdminManagementService_change_account_status(self, token, user_email, new_status) ==
    PostTokenParams(self, <<Slash, "change_account_status">>, token,
                    Dict2("user_email", user_email, "new_status", new_status))

DeviceCommandService_add_command(self, command_data) ==
    Return(post(self, <<Slash, "add_command">>, Json(command_data)))
DeviceCommandService_get_commands(self, device_id) ==
    Return(get(self, <<Slash, "commands", Slash>> \o Format(device_id), NoKwargs))
DeviceCommandService_delete_commands(self, device_id) ==
    Return(delete(self, <<Slash, "commands", Slash, "delete", Slash>> \o Format(device_id),
                  NoKwargs))

DeviceOnboardingService_add_new_device(self, device_data) ==
    Return(post(self, <<Slash, "add_new_device">>, Json(device_data)))
DeviceOnboardingService_get_my_devices(self, user_id) ==
    Return(get(self, <<Slash, "get_my_devices", Slash>> \o Format(user_id), NoKwargs))
DeviceOnboardingService_get_user_id_by_device_id(self, device_id) ==
    Return(get(self, <<Slash, "get_user_id_by_device_id", Slash>> \o Format(device_id),
               NoKwargs))

DeviceTelemetryService_get_latest(self, device_id) ==
    Return(get(self, <<Slash, "latest", Slash>> \o Format(device_id), NoKwargs))
DeviceTelemetryService_get_device_status(self, device_id) ==
    Return(get(self, <<Slash, "device", Slash, "status", Slash>> \o Format(device_id),
               NoKwargs))

HealthMonitoringService_get_latest_health(self, device_id) ==
    Return(get(self, <<Slash>> \o Format(device_id) \o <<Slash, "latest">>, NoKwargs))

\* A bug that files the assignment under the key the other calls use.
AssignUnderPayload(self, slot_id, assignment, token) ==
    LET payload == _normalise_token_payload(token)
    IN  IF payload.raised THEN payload
        ELSE Return(post(self, <<Slash, "parking_slots", Slash>> \o Format(slot_id)
                                   \o <<Slash, "assign">>,
                         Json(Dict2("payload", assignment, "authorization", payload.val))))

ParkingSlotService_create_parking_slot(self, slot_data, token) ==
    LET payload == _normalise_token_payload(token)
    IN  IF payload.raised THEN payload
        ELSE Return(post(self, <<Slash, "parking_slots">>,
                         Json(Dict2("payload", slot_data, "authorization", payload.val))))
ParkingSlotService_list_parking_slots(self, status) ==
    LET params == IF Truthy(status) THEN Dict1("status", status) ELSE None
    IN  Return(get(self, <<Slash, "parking_slots">>, [NoKwargs EXCEPT !.params = params]))
ParkingSlotService_get_parking_slot(self, slot_id) ==
    Return(get(self, <<Slash, "parking_slots", Slash>> \o Format(slot_id), NoKwargs))
ParkingSlotService_update_parking_slot(self, slot_id, updates, token) ==
    LET payload == _normalise_token_payload(token)
    IN  IF payload.raised THEN payload
        ELSE Return(put(self, <<Slash, "parking_slots", Slash>> \o Format(slot_id),
                        Json(Dict2("payload", updates, "authorization", payload.val))))
ParkingSlotService_delete_parking_slot(self, slot_id, token) ==
    LET payload == _normalise_token_payload(token)
    IN  IF payload.raised THEN payload
        ELSE Return(delete(self, <<Slash, "parking_slots", Slash>> \o Format(slot_id),
                           Json(Dict1("authorization", payload.val))))
ParkingSlotService_assign_parking_slot(self, slot_id, assignment, token) ==
    LET payload == _normalise_token_payload(token)
    IN  IF payload.raised THEN payload
        ELSE Return(post(self, <<Slash, "parking_slots", Slash>> \o Format(slot_id)
                                   \o <<Slash, "assign">>,
                         Json(Dict2("body", assignment, "authorization", payload.val))))
ParkingSlotService_release_parking_slot(self, slot_id, token) ==
    LET payload == _normalise_token_payload(token)
    IN  IF payload.raised THEN payload
        ELSE Return(post(self, <<Slash, "parking_slots", Slash>> \o Format(slot_id)
                                   \o <<Slash, "release">>,
                         Json(Dict1("authorization", payload.val))))

UserAuthenticationService_register_user(self, user_data) ==
    Return(post(self, <<Slash, "register">>, Json(user_data)))

\* A bug that lets a mapping without a password through.
LoginWithoutPasswordCheck(self, credentials) ==
    IF IsAuth(credentials)
    THEN Return(post(self, <<Slash, "login">>, [NoKwargs EXCEPT !.auth = credentials]))
    ELSE IF HasAttr(credentials, "username") /\ HasAttr(credentials, "password")
    THEN Return(post(self, <<Slash, "login">>,
                     [NoKwargs EXCEPT !.auth = BasicAuth(credentials.attrs["username"],
                                                         credentials.attrs["password"])]))
    ELSE IF credentials.type = "dict"
    THEN LET email == Or(Get(credentials, "email"), Get(credentials, "username"))
             password == Get(credentials, "password")
         IN  IF ~Truthy(email) THEN Raise("ValueError")
             ELSE Return(post(self, <<Slash, "login">>,
                              [NoKwargs EXCEPT !.auth = BasicAuth(email, password)]))
    ELSE Raise("TypeError")

\* A bug that prefers the username of a mapping to its email.
LoginPrefersUsername(self, credentials) ==
    IF IsAuth(credentials)
    THEN Return(post(self, <<Slash, "login">>, [NoKwargs EXCEPT !.auth = credentials]))
    ELSE IF HasAttr(credentials, "username") /\ HasAttr(credentials, "password")
    THEN Return(post(self, <<Slash, "login">>,
                     [NoKwargs EXCEPT !.auth = BasicAuth(credentials.attrs["username"],
                                                         credentials.attrs["password"])]))
    ELSE IF credentials.type = "dict"
    THEN LET email == Or(Get(credentials, "username"), Get(credentials, "email"))
             password == Get(credentials, "password")
         IN  IF ~Truthy(email) \/ ~Truthy(password) THEN Raise("ValueError")
             ELSE Return(post(self, <<Slash, "login">>,
                              [NoKwargs EXCEPT !.auth = BasicAuth(email, password)]))
    ELSE Raise("TypeError")

UserAuthenticationService_login_user(self, credentials) ==
    IF IsAuth(credentials)
    THEN Return(post(self, <<Slash, "login">>, [NoKwargs EXCEPT !.auth = credentials]))
    ELSE IF HasAttr(credentials, "username") /\ HasAttr(credentials, "password")
    THEN Return(post(self, <<Slash, "login">>,
                     [NoKwargs EXCEPT !.auth = BasicAuth(credentials.attrs["username"],
                                                         credentials.attrs["password"])]))
    ELSE IF credentials.type = "dict"
    THEN LET email == Or(Get(credentials, "email"), Get(credentials, "username"))
             password == Get(credentials, "password")
         IN  IF ~Truthy(email) \/ ~Truthy(password) THEN Raise("ValueError")
             ELSE Return(post(self, <<Slash, "login">>,
                              [NoKwargs EXCEPT !.auth = BasicAuth(email, password)]))
    ELSE Raise("TypeError")

UserAuthenticationService_validate_token(self, token) ==
    PostToken(self, <<Slash, "validate">>, token)
UserAuthenticationService_get_user(self, user_id) ==
    Return(get(self, <<Slash, "user", Slash>> \o Format(user_id), NoKwargs))
UserAuthenticationService_make_admin(self, user_id) ==
    Return(post(self, <<Slash, "user", Slash>> \o Format(user_id) \o <<Slash, "make_admin">>,
                NoKwargs))
UserAuthenticationService_get_all_non_staff(self, token) ==
    PostToken(self, <<Slash, "users", Slash, "non_staff">>, token)
UserAuthenticationService_change_account_status(self, token, target_user_email, new_status) ==
    PostTokenParams(self, <<Slash, "change_account_status">>, token,
                    Dict2("target_user_email", target_user_email, "new_status", new_status))

-----------------------------------------------------------------------------
(* Invocations.  A method runs without suspending up to its await of the   *)
(* httpx call, is suspended while the request is on the network, and       *)
(* resumes with what the transport produced.  call is the invocation last  *)
(* started on the object:                                                  *)
(*   reqs       the requests it handed to the httpx.AsyncClient            *)
(*   wire       how many of them the AsyncClient put on the network        *)
(*   transport  what the AsyncClient produced for it                       *)
(*   outcome    what the invocation gave its caller                        *)
(*   afterClose whether a close() had completed when it started            *)
(* One invocation is followed at a time: invocations share nothing but the *)
(* AsyncClient's state, so a next one starts once the last has ended,      *)
(* while close() may run at any point, an invocation's await included.     *)

Response(status) == [kind |-> "response", status |-> status]
Error(exc) == [kind |-> "error", exc |-> exc]
NoOutcome == [kind |-> "none"]

\* What the network may answer: any status, or a transport failure.
TransportOutcomes ==
    {Response(200), Response(404), Response(500), Error("ConnectError")}

\* A bug that turns an error status into an exception.
RaiseForStatus(o) ==
    IF o.kind = "response" /\ o.status >= 400 THEN Error("HTTPStatusError") ELSE o

\* return await self._client.<verb>(...): the awaited result, as it is.
ReturnAwait(o) == o

\* httpx.AsyncClient.send on the client's state: a closed client refuses
\* the request with RuntimeError and sends nothing; any other is open from
\* then on.
AsyncClient_send(state) ==
    IF state = "CLOSED"
    THEN [state |-> state, raised |-> TRUE, exc |-> "RuntimeError"]
    ELSE [state |-> "OPENED", raised |-> FALSE, exc |-> "none"]

\* httpx.AsyncClient.aclose on the client's state: releases the connection
\* context unless the client is closed already.
AsyncClient_aclose(state) ==
    [state |-> "CLOSED", releases |-> IF state = "CLOSED" THEN 0 ELSE 1]

Started(method, args) ==
    [phase |-> "awaiting", cls |-> facade.cls, method |-> method, args |-> args,
     afterClose |-> Len(closes) > 0, reqs |-> <<>>, wire |-> 0,
     transport |-> NoOutcome, outcome |-> NoOutcome]

\* One invocation of a method, to its await or to the exception that ends
\* it: plan is what the method's code yields for these arguments.
Invoke(cls, method, args, plan) ==
    /\ facade.cls = cls
    /\ call.phase # "awaiting"
    /\ LET c == Started(method, args)
       IN  IF plan.raised
           THEN /\ call' = [c EXCEPT !.phase = "done", !.outcome = Error(plan.exc)]
                /\ UNCHANGED clientState
           ELSE LET s == AsyncClient_send(clientState)
                IN  /\ clientState' = s.state
                    /\ call' = IF s.raised
                               THEN [c EXCEPT !.phase = "done",
                                              !.reqs = <<plan.val>>,
                                              !.transport = Error(s.exc),
                                              !.outcome = ReturnAwait(Error(s.exc))]
                               ELSE [c EXCEPT !.reqs = <<plan.val>>, !.wire = 1]
    /\ UNCHANGED <<env, facade, ctor, released, closes, pure>>

\* The transport produces its outcome and the suspended method resumes.
Respond(o) ==
    /\ call.phase = "awaiting"
    /\ call' = [call EXCEPT !.phase = "done", !.transport = o,
                            !.outcome = ReturnAwait(o)]
    /\ UNCHANGED <<env, facade, clientState, ctor, released, closes, pure>>

\* A bug that returns without closing the httpx client.
CloseWithoutDelegating ==
    /\ facade # NoFacade
    /\ Len(closes) < MaxCloses
    /\ closes' = Append(closes, [outcome |-> "ok", clientState |-> clientState,
                                 released |-> released])
    /\ UNCHANGED <<env, facade, clientState, ctor, call, released, pure>>

\* A bug that refuses to close a client that is closed already.
CloseRaisesWhenClosed ==
    /\ facade # NoFacade
    /\ Len(closes) < MaxCloses
    /\ LET a == AsyncClient_aclose(clientState)
       IN  /\ clientState' = a.state
           /\ released' = released + a.releases
           /\ closes' = Append(closes,
                               [outcome |-> IF clientState = "CLOSED"
                                            THEN "RuntimeError" ELSE "ok",
                                clientState |-> a.state,
                                released |-> released + a.releases])
    /\ UNCHANGED <<env, facade, ctor, call, pure>>

\* ServiceClient.close, to which every facade's close() delegates; each
\* completed call leaves in closes how it ended and the state it left.
close ==
    /\ facade # NoFacade
    /\ Len(closes) < MaxCloses
    /\ LET a == AsyncClient_aclose(clientState)
       IN  /\ clientState' = a.state
           /\ released' = released + a.releases
           /\ closes' = Append(closes, [outcome |-> "ok", clientState |-> a.state,
                                        released |-> released + a.releases])
    /\ UNCHANGED <<env, facade, ctor, call, pure>>

-----------------------------------------------------------------------------
(* Arguments drawn for the methods. *)

Payloads == {Dict1("spot", PyStr(<<"A1">>)), PyDict(EmptyDict)}
Ids == {PyStr(<<"42">>), PyInt(7)}
Emails == {PyStr(<<"a@b.com">>)}
AccountStatuses == {PyStr(<<"active">>)}
SlotStatuses == {None, PyStr(<<>>), PyStr(<<"free">>)}
KwargsDrawn == {NoKwargs, Json(Dict1("spot", PyStr(<<"A1">>)))}
Endpoints == {<<>>, <<"health">>, <<Slash, "health">>, <<Slash, Slash, "x">>}
CallTokens ==
    {PyStr(<<"tok123">>), None, PyInt(7)}
        \cup {PyDict([k \in D |-> PyStr(<<"tok123">>)]) : D \in SUBSET TokenKeys}

CredentialKeys == {"email", "username", "password"}
CredentialValue(k) ==
    CASE k = "email" -> PyStr(<<"a@b.com">>)
      [] k = "username" -> PyStr(<<"u">>)
      [] k = "password" -> PyStr(<<"p">>)
\* The mappings over these keys, each value the empty string or the key's own.
CredentialDicts ==
    {PyDict([k \in D |-> IF k \in E THEN PyStr(<<>>) ELSE CredentialValue(k)]) :
        D \in SUBSET CredentialKeys, E \in SUBSET CredentialKeys}
CredentialObjects ==
    {PyObject([k \in D |-> CredentialValue(k)]) : D \in SUBSET {"username", "password"}}
Credentials ==
    CredentialDicts \cup CredentialObjects
        \cup {OpaqueAuth("a1"), BasicAuth(PyStr(<<"u">>), PyStr(<<"p">>)),
              PyStr(<<"u:p">>), None, PyInt(7)}

-----------------------------------------------------------------------------
(* The object in use: every behaviour starts from one constructed object.  *)

InitUrlArgs == {None, PyStr(Http("x") \o <<Slash>>)}

Init ==
    /\ env = NoEnvironment
    /\ \E cls \in FacadeClasses \cup {"ServiceClient"}, b \in InitUrlArgs :
          LET r == IF cls = "ServiceClient"
                   THEN ServiceClient_init(b, DefaultTimeout)
                   ELSE Facade_init(cls, b, DefaultTimeout, env)
          IN  /\ ~r.raised
              /\ ctor = [cls |-> cls, base_url |-> b, timeout |-> DefaultTimeout,
                         raised |-> FALSE, exc |-> "none"]
              /\ facade = [cls |-> cls, base_url |-> r.val.base_url,
                           timeout |-> r.val.timeout]
    /\ clientState = "UNOPENED"
    /\ call = NoCall /\ released = 0 /\ closes = <<>>
    /\ pure = NoPure

Next ==
    \/ \E e \in Endpoints, k \in KwargsDrawn :
          Invoke("ServiceClient", "get", [endpoint |-> e, kwargs |-> k],
                 Return(get(facade, e, k)))
    \/ \E e \in Endpoints, k \in KwargsDrawn :
          Invoke("ServiceClient", "post", [endpoint |-> e, kwargs |-> k],
                 Return(post(facade, e, k)))
    \/ \E e \in Endpoints, k \in KwargsDrawn :
          Invoke("ServiceClient", "put", [endpoint |-> e, kwargs |-> k],
                 Return(put(facade, e, k)))
    \/ \E e \in Endpoints, k \in KwargsDrawn :
          Invoke("ServiceClient", "delete", [endpoint |-> e, kwargs |-> k],
                 Return(delete(facade, e, k)))
    \/ \E cls \in FacadeClasses \ {"AlertAndEventProcessingService",
                                   "NotificationMicroserviceService",
                                   "ParkingSlotService"} :
          Invoke(cls, "health_check", [none |-> None], health_check(facade))
    \/ \E cls \in {"AlertAndEventProcessingService", "NotificationMicroserviceService"} :
          Invoke(cls, "health_check", [none |-> None], health_check(facade))
    \/ \E cls \in {"AlertAndEventProcessingService", "NotificationMicroserviceService"} :
          Invoke(cls, "root", [none |-> None], root(facade))
    \/ \E d \in Payloads :
          Invoke("AdminManagementService", "register_admin", [admin_data |-> d],
                 AdminManagementService_register_admin(facade, d))
    \/ \E t \in CallTokens :
          Invoke("AdminManagementService", "get_all_non_staff", [token |-> t],
                 AdminManagementService_get_all_non_staff(facade, t))
    \/ \E t \in CallTokens, u \in Emails, s \in AccountStatuses :
          Invoke("AdminManagementService", "change_account_status",
                 [token |-> t, user_email |-> u, new_status |-> s],
                 AdminManagementService_change_account_status(facade, t, u, s))
    \/ \E d \in Payloads :
          Invoke("DeviceCommandService", "add_command", [command_data |-> d],
                 DeviceCommandService_add_command(facade, d))
    \/ \E i \in Ids :
          Invoke("DeviceCommandService", "get_commands", [device_id |-> i],
                 DeviceCommandService_get_commands(facade, i))
    \/ \E i \in Ids :
          Invoke("DeviceCommandService", "delete_commands", [device_id |-> i],
                 DeviceCommandService_delete_commands(facade, i))
    \/ \E d \in Payloads :
          Invoke("DeviceOnboardingService", "add_new_device", [device_data |-> d],
                 DeviceOnboardingService_add_new_device(facade, d))
    \/ \E i \in Ids :
          Invoke("DeviceOnboardingService", "get_my_devices", [user_id |-> i],
                 DeviceOnboardingService_get_my_devices(facade, i))
    \/ \E i \in Ids :
          Invoke("DeviceOnboardingService", "get_user_id_by_device_id", [device_id |-> i],
                 DeviceOnboardingService_get_user_id_by_device_id(facade, i))
    \/ \E i \in Ids :
          Invoke("DeviceTelemetryService", "get_latest", [device_id |-> i],
                 DeviceTelemetryService_get_latest(facade, i))
    \/ \E i \in Ids :
          Invoke("DeviceTelemetryService", "get_device_status", [device_id |-> i],
                 DeviceTelemetryService_get_device_status(facade, i))
    \/ \E i \in Ids :
          Invoke("HealthMonitoringService", "get_latest_health", [device_id |-> i],
                 HealthMonitoringService_get_latest_health(facade, i))
    \/ \E d \in Payloads, t \in CallTokens :
          Invoke("ParkingSlotService", "create_parking_slot",
                 [data |-> d, token |-> t],
                 ParkingSlotService_create_parking_slot(facade, d, t))
    \/ \E s \in SlotStatuses :
          Invoke("ParkingSlotService", "list_parking_slots", [status |-> s],
                 ParkingSlotService_list_parking_slots(facade, s))
    \/ \E i \in Ids :
          Invoke("ParkingSlotService", "get_parking_slot", [slot_id |-> i],
                 ParkingSlotService_get_parking_slot(facade, i))
    \/ \E i \in Ids, d \in Payloads, t \in CallTokens :
          Invoke("ParkingSlotService", "update_parking_slot",
                 [slot_id |-> i, data |-> d, token |-> t],
                 ParkingSlotService_update_parking_slot(facade, i, d, t))
    \/ \E i \in Ids, t \in CallTokens :
          Invoke("ParkingSlotService", "delete_parking_slot",
                 [slot_id |-> i, token |-> t],
                 ParkingSlotService_delete_parking_slot(facade, i, t))
    \/ \E i \in Ids, d \in Payloads, t \in CallTokens :
          Invoke("ParkingSlotService", "assign_parking_slot",
                 [slot_id |-> i, data |-> d, token |-> t],
                 ParkingSlotService_assign_parking_slot(facade, i, d, t))
    \/ \E i \in Ids, t \in CallTokens :
          Invoke("ParkingSlotService", "release_parking_slot",
                 [slot_id |-> i, token |-> t],
                 ParkingSlotService_release_parking_slot(facade, i, t))
    \/ \E d \in Payloads :
          Invoke("UserAuthenticationService", "register_user", [user_data |-> d],
                 UserAuthenticationService_register_user(facade, d))
    \/ \E c \in Credentials :
          Invoke("UserAuthenticationService", "login_user", [credentials |-> c],
                 UserAuthenticationService_login_user(facade, c))
    \/ \E t \in CallTokens :
          Invoke("UserAuthenticationService", "validate_token", [token |-> t],
                 UserAuthenticationService_validate_token(facade, t))
    \/ \E i \in Ids :
          Invoke("UserAuthenticationService", "get_user", [user_id |-> i],
                 UserAuthenticationService_get_user(facade, i))
    \/ \E i \in Ids :
          Invoke("UserAuthenticationService", "make_admin", [user_id |-> i],
                 UserAuthenticationService_make_admin(facade, i))
    \/ \E t \in CallTokens :
          Invoke("UserAuthenticationService", "get_all_non_staff", [token |-> t],
                 UserAuthenticationService_get_all_non_staff(facade, t))
    \/ \E t \in CallTokens, u \in Emails, s \in AccountStatuses :
          Invoke("UserAuthenticationService", "change_account_status",
                 [token |-> t, target_user_email |-> u, new_status |-> s],
                 UserAuthenticationService_change_account_status(facade, t, u, s))
    \/ \E o \in TransportOutcomes : Respond(o)
    \/ close

Spec == Init /\ [][Next]_vars

-----------------------------------------------------------------------------
(* Properties of the pure functions, under SpecPure. *)

\* C10: _normalise returns, for every endpoint p (the empty one included), a
\* string that starts with "/", equal to p when p starts with "/" and to
\* "/" followed by p otherwise; normalising the result again changes
\* nothing; "health" and "/health" both normalise to "/health".
C10_NormaliseLeadingSeparator ==
    /\ pure.pc \in {"normalised", "renormalised"} =>
          LET p == pure.arg.e
              r == pure.ret[1]
          IN  /\ Len(r) > 0 /\ r[1] = Slash
              /\ (Len(p) > 0 /\ p[1] = Slash) => r = p
              /\ ~(Len(p) > 0 /\ p[1] = Slash) => r = <<Slash>> \o p
              /\ p \in {<<"health">>, <<Slash, "health">>} => r = <<Slash, "health">>
    /\ pure.pc = "renormalised" => pure.ret[2] = pure.ret[1]

\* "health" has been normalised, and its result normalised again.
C10_Witness ==
    /\ pure.pc = "renormalised"
    /\ pure.arg.e = <<"health">>
    /\ pure.ret = <<(<<Slash, "health">>), (<<Slash, "health">>)>>

\* C1: _normalise_token_payload maps a string s to {token: s}, a mapping
\* holding the key token to {token: m[token]} alone, a mapping without
\* that key to itself, and raises TypeError, returning no mapping, for an
\* input of any other type.
C1_TokenPayloadReference ==
    pure.pc = "payload" =>
        LET t == pure.arg.v
            r == pure.ret[1]
        IN  /\ t.type = "str" =>
                  /\ ~r.raised /\ r.val.type = "dict"
                  /\ DOMAIN r.val.m = {"token"} /\ r.val.m["token"] = t
            /\ (t.type = "dict" /\ "token" \in DOMAIN t.m) =>
                  /\ ~r.raised /\ r.val.type = "dict"
                  /\ DOMAIN r.val.m = {"token"}
                  /\ r.val.m["token"] = t.m["token"]
            /\ (t.type = "dict" /\ "token" \notin DOMAIN t.m) =>
                  ~r.raised /\ r.val = t
            /\ t.type \notin {"str", "dict"} =>
                  r.raised /\ r.exc = "TypeError"

\* A mapping holding token beside another key has been normalised.
C1_Witness ==
    /\ pure.pc = "payload"
    /\ pure.arg.v.type = "dict"
    /\ DOMAIN pure.arg.v.m = {"token", "uid"}
    /\ ~pure.ret[1].raised

-----------------------------------------------------------------------------
(* Properties of construction, under SpecCtor. *)

\* b is s without its trailing slashes.
StrippedOf(b, s) ==
    /\ \E n \in 0..Len(s) : s = b \o Slashes(n)
    /\ b = <<>> \/ b[Len(b)] # Slash

\* The explicit base URL argument is absent or empty.
NoExplicitUrl(c) ==
    c.base_url.type = "NoneType" \/ (c.base_url.type = "str" /\ c.base_url.s = <<>>)

\* C6 as stated: a facade constructed without an explicit base URL is
\* built whatever the state of its environment variable (unset, or set to
\* any string, the empty one included), bound to the variable's value
\* (trailing slashes stripped) when it is set and to the hardcoded default
\* when it is not; a non-empty explicit base URL takes precedence.
C6_AsStated ==
    ctor.cls \in FacadeClasses =>
        LET v == env[EnvVar(ctor.cls)]
        IN  /\ ~ctor.raised /\ facade.cls = ctor.cls
            /\ (NoExplicitUrl(ctor) /\ v.set) => StrippedOf(facade.base_url, v.val)
            /\ (NoExplicitUrl(ctor) /\ ~v.set) => facade.base_url = DefaultUrl(ctor.cls)
            /\ ~NoExplicitUrl(ctor) => StrippedOf(facade.base_url, ctor.base_url.s)

\* C6 amended: without an explicit base URL, construction succeeds when the
\* environment variable is unset (binding the default) or set to a
\* non-empty string (binding it, trailing slashes stripped), and raises
\* ValueError, building nothing, when the variable is set to the empty
\* string; a non-empty explicit base URL takes precedence over both.
C6_ConstructionFromEnvironment ==
    ctor.cls \in FacadeClasses =>
        LET v == env[EnvVar(ctor.cls)]
        IN  /\ (NoExplicitUrl(ctor) /\ v.set /\ v.val # <<>>) =>
                  /\ ~ctor.raised /\ facade.cls = ctor.cls
                  /\ StrippedOf(facade.base_url, v.val)
            /\ (NoExplicitUrl(ctor) /\ v.set /\ v.val = <<>>) =>
                  ctor.raised /\ ctor.exc = "ValueError" /\ facade = NoFacade
            /\ (NoExplicitUrl(ctor) /\ ~v.set) =>
                  /\ ~ctor.raised /\ facade.cls = ctor.cls
                  /\ facade.base_url = DefaultUrl(ctor.cls)
            /\ ~NoExplicitUrl(ctor) =>
                  /\ ~ctor.raised /\ facade.cls = ctor.cls
                  /\ StrippedOf(facade.base_url, ctor.base_url.s)

\* A facade has been built from its environment variable, the explicit
\* argument being the empty string.
C6_Witness ==
    /\ ctor.cls = "ParkingSlotService"
    /\ ctor.base_url = PyStr(<<>>)
    /\ env["PARKING_SLOT_SERVICE_URL"] = SetTo(Http("x") \o <<Slash>>)
    /\ facade.cls = "ParkingSlotService"
    /\ facade.base_url = Http("x")

\* C9 as stated: every constructed ServiceClient holds a base URL that is
\* non-empty and does not end with a slash, whatever string the constructor
\* accepted, and construction with an empty base URL raises.
C9_BaseUrlNonEmpty ==
    /\ facade # NoFacade =>
          /\ facade.base_url # <<>>
          /\ facade.base_url[Len(facade.base_url)] # Slash
    /\ (ctor.cls = "ServiceClient" /\ NoExplicitUrl(ctor)) =>
          ctor.raised /\ ctor.exc = "ValueError"

-----------------------------------------------------------------------------
(* Properties of the invocations, under Spec. *)

\* The verb each method is written to use.
FixedVerb(method) ==
    CASE method \in {"get", "health_check", "root", "get_commands", "get_my_devices",
                     "get_user_id_by_device_id", "get_latest", "get_device_status",
                     "get_latest_health", "list_parking_slots", "get_parking_slot",
                     "get_user"} -> "GET"
      [] method \in {"put", "update_parking_slot"} -> "PUT"
      [] method \in {"delete", "delete_commands", "delete_parking_slot"} -> "DELETE"
      [] OTHER -> "POST"

\* The mapping holds a non-empty string under k.
NonEmptyAt(m, k) == k \in DOMAIN m /\ m[k].type = "str" /\ m[k].s # <<>>

\* Credentials login_user is to refuse: a mapping without a non-empty
\* password, or with neither a non-empty email nor a non-empty username, or
\* a value that is no auth object, no object with username and password
\* attributes and no mapping.
MalformedCredentials(c) ==
    \/ /\ c.type = "dict"
       /\ \/ ~NonEmptyAt(c.m, "password")
          \/ ~NonEmptyAt(c.m, "email") /\ ~NonEmptyAt(c.m, "username")
    \/ /\ c.type \notin {"Auth", "BasicAuth", "dict"}
       /\ ~(c.type = "object" /\ {"username", "password"} \subseteq DOMAIN c.attrs)

\* The invocation's arguments fail validation: a token that is neither a
\* string nor a mapping, or malformed credentials.
ArgsInvalid(c) ==
    \/ "token" \in DOMAIN c.args /\ c.args.token.type \notin {"str", "dict"}
    \/ c.method = "login_user" /\ MalformedCredentials(c.args.credentials)

Invoked == call.phase \in {"awaiting", "done"}

\* C2: an invocation on an open object either fails argument validation
\* with no request handed to the transport, or hands it exactly one
\* request, with the method's fixed verb and the URL base_url + normalised
\* path, and ends with exactly what the transport produced, response of
\* any status or error alike.
C2_OneRequestOrNone ==
    (Invoked /\ ~call.afterClose) =>
        IF ArgsInvalid(call)
        THEN /\ call.phase = "done"
             /\ call.reqs = <<>> /\ call.wire = 0
             /\ call.transport = NoOutcome
             /\ call.outcome.kind = "error"
             /\ call.outcome.exc \in {"TypeError", "ValueError"}
        ELSE /\ Len(call.reqs) = 1 /\ call.wire = 1
             /\ LET r == call.reqs[1]
                IN  /\ r.verb = FixedVerb(call.method)
                    /\ r.url = facade.base_url \o r.path
                    /\ r.path = IF Len(r.endpoint) > 0 /\ r.endpoint[1] = Slash
                                THEN r.endpoint ELSE <<Slash>> \o r.endpoint
                    /\ (call.method = "get_parking_slot"
                            /\ call.args.slot_id = PyStr(<<"42">>)) =>
                          r.url = facade.base_url \o <<Slash, "parking_slots", Slash, "42">>
             /\ call.phase = "done" =>
                   /\ call.transport \in TransportOutcomes
                   /\ call.outcome = call.transport

\* get_parking_slot("42") has ended with the transport's 500 response.
C2_Witness ==
    /\ call.phase = "done" /\ ~call.afterClose
    /\ call.cls = "ParkingSlotService" /\ call.method = "get_parking_slot"
    /\ call.args.slot_id = PyStr(<<"42">>)
    /\ Len(call.reqs) = 1 /\ call.reqs[1].verb = "GET"
    /\ call.outcome = Response(500)

\* C3: login_user with malformed credentials raises ValueError or
\* TypeError and hands no request to the transport.
C3_LoginRejectsMalformed ==
    (Invoked /\ call.method = "login_user"
        /\ MalformedCredentials(call.args.credentials)) =>
        /\ call.phase = "done"
        /\ call.outcome.kind = "error"
        /\ call.outcome.exc \in {"ValueError", "TypeError"}
        /\ call.reqs = <<>> /\ call.wire = 0

\* login_user has refused a mapping that holds an email and no password.
C3_Witness ==
    /\ call.phase = "done" /\ call.method = "login_user"
    /\ call.args.credentials = Dict1("email", PyStr(<<"a@b.com">>))
    /\ call.outcome = Error("ValueError")
    /\ call.reqs = <<>>

\* The credential pair login_user is to send.
ResolvedAuth(c) ==
    CASE c.type \in {"Auth", "BasicAuth"} -> c
      [] c.type = "object" -> BasicAuth(c.attrs["username"], c.attrs["password"])
      [] c.type = "dict" ->
            BasicAuth(IF NonEmptyAt(c.m, "email") THEN c.m["email"] ELSE c.m["username"],
                      c.m["password"])

\* C4: login_user with well-formed credentials hands the transport exactly
\* one request, POST /login, with the resolved credentials as its auth and
\* neither a JSON body nor query parameters: an auth object as it came, an
\* object's (username, password), a mapping's (email if non-empty, else
\* username; password).
C4_LoginSendsBasicAuth ==
    (Invoked /\ call.method = "login_user"
        /\ ~MalformedCredentials(call.args.credentials)) =>
        /\ Len(call.reqs) = 1
        /\ ~call.afterClose => call.wire = 1
        /\ LET r == call.reqs[1]
           IN  /\ r.verb = "POST"
               /\ r.path = <<Slash, "login">>
               /\ r.url = facade.base_url \o <<Slash, "login">>
               /\ r.json = Absent /\ r.params = Absent
               /\ r.auth = ResolvedAuth(call.args.credentials)
               /\ call.args.credentials
                      = Dict2("email", PyStr(<<"a@b.com">>), "password", PyStr(<<"p">>)) =>
                     r.auth = BasicAuth(PyStr(<<"a@b.com">>), PyStr(<<"p">>))

\* login_user has sent a mapping's email, its username being there too.
C4_Witness ==
    /\ Invoked /\ call.method = "login_user" /\ call.wire = 1
    /\ call.args.credentials.type = "dict"
    /\ DOMAIN call.args.credentials.m = CredentialKeys
    /\ call.reqs[1].auth = BasicAuth(PyStr(<<"a@b.com">>), PyStr(<<"p">>))

\* The payload a token is to be sent as.
TokenPayload(token) ==
    IF token.type = "str" THEN Dict1("token", token)
    ELSE IF "token" \in DOMAIN token.m THEN Dict1("token", token.m["token"])
    ELSE token

TokenBearing ==
    {"create_parking_slot", "update_parking_slot", "delete_parking_slot",
     "assign_parking_slot", "release_parking_slot"}

\* C5: every token-bearing ParkingSlotService call with an accepted token
\* sends a JSON body whose authorization is the normalised token payload, a
\* mapping in every case; create and update carry the caller's data under
\* payload, assign under body, delete and release carry authorization
\* alone; create_parking_slot({spot: A1}, tok123) on http://x sends POST
\* http://x/parking_slots with {payload: {spot: A1}, authorization:
\* {token: tok123}}.
C5_ParkingSlotEnvelope ==
    (Invoked /\ call.cls = "ParkingSlotService" /\ call.method \in TokenBearing
        /\ call.args.token.type \in {"str", "dict"}) =>
        /\ Len(call.reqs) = 1
        /\ LET body == call.reqs[1].json
           IN  /\ body.type = "dict"
               /\ "authorization" \in DOMAIN body.m
               /\ body.m["authorization"].type = "dict"
               /\ body.m["authorization"] = TokenPayload(call.args.token)
               /\ call.method \in {"create_parking_slot", "update_parking_slot"} =>
                     /\ DOMAIN body.m = {"payload", "authorization"}
                     /\ body.m["payload"] = call.args.data
               /\ call.method = "assign_parking_slot" =>
                     /\ DOMAIN body.m = {"body", "authorization"}
                     /\ body.m["body"] = call.args.data
               /\ call.method \in {"delete_parking_slot", "release_parking_slot"} =>
                     DOMAIN body.m = {"authorization"}
        /\ (call.method = "create_parking_slot" /\ facade.base_url = Http("x")
                /\ call.args.data = Dict1("spot", PyStr(<<"A1">>))
                /\ call.args.token = PyStr(<<"tok123">>)) =>
              /\ call.reqs[1].verb = "POST"
              /\ call.reqs[1].url = <<"http:", Slash, Slash, "x", Slash, "parking_slots">>
              /\ call.reqs[1].json
                    = Dict2("payload", Dict1("spot", PyStr(<<"A1">>)),
                            "authorization", Dict1("token", PyStr(<<"tok123">>)))

\* assign_parking_slot has sent an assignment with a string token.
C5_Witness ==
    /\ Invoked /\ call.cls = "ParkingSlotService"
    /\ call.method = "assign_parking_slot"
    /\ call.args.token = PyStr(<<"tok123">>)
    /\ call.wire = 1
    /\ call.reqs[1].json = Dict2("body", call.args.data,
                                 "authorization", Dict1("token", PyStr(<<"tok123">>)))

\* C7 as stated: once a close() has completed the client stays closed, and
\* every method invoked from then on fails with the transport's error,
\* nothing being sent on the network.
C7_AsStated ==
    /\ Len(closes) > 0 => clientState = "CLOSED"
    /\ (Invoked /\ call.afterClose) =>
          /\ call.phase = "done"
          /\ call.outcome = Error("RuntimeError")
          /\ call.wire = 0

\* C7 amended: once a close() has completed the client stays closed, and
\* every method invoked from then on fails, nothing being sent on the
\* network: with TypeError or ValueError when its arguments fail
\* validation, with the transport's error otherwise.
C7_ClosedStaysClosed ==
    /\ Len(closes) > 0 => clientState = "CLOSED"
    /\ (Invoked /\ call.afterClose) =>
          /\ call.phase = "done"
          /\ call.wire = 0
          /\ IF ArgsInvalid(call)
             THEN /\ call.reqs = <<>>
                  /\ call.outcome.kind = "error"
                  /\ call.outcome.exc \in {"TypeError", "ValueError"}
             ELSE call.outcome = Error("RuntimeError")

\* validate_token with a good token has failed on a closed facade.
C7_Witness ==
    /\ Invoked /\ call.afterClose
    /\ call.method = "validate_token"
    /\ call.args.token = PyStr(<<"tok123">>)
    /\ call.outcome = Error("RuntimeError")
    /\ call.wire = 0

\* C8: after any number of close() calls the connection context has been
\* released exactly once, by the first of them; every call completed
\* without error and left the state the first one left.
C8_CloseIdempotent ==
    Len(closes) >= 1 =>
        /\ released = 1
        /\ closes[1].released = 1
        /\ \A i \in 1..Len(closes) :
              /\ closes[i].outcome = "ok"
              /\ closes[i].clientState = closes[1].clientState
              /\ closes[i].released = closes[1].released
        /\ clientState = closes[1].clientState

\* close() has been called more than once on a client that had sent.
C8_Witness ==
    /\ Len(closes) >= 2
    /\ released = 1
    /\ Invoked /\ ~call.afterClose /\ call.wire = 1

=============================================================================
